---------------------------- MODULE Spec2Model ----------------------------
(***************************************************************************)
(* A model of subresource_integrity.py: the Hash value object, its four    *)
(* construction paths, its text encoding, and generate / render / parse.   *)
(*                                                                         *)
(* Text is a sequence of character codes (ASCII code points) and a digest  *)
(* is a sequence of bytes (0..255), so that the character classes of the   *)
(* grammar, the base64 alphabet and the padding rules are the ones of the  *)
(* source and not abstractions of them.                                    *)
(***************************************************************************)
EXTENDS Integers, Sequences, FiniteSets, TLC

(***************************************************************************)
(* Bounds of the model.                                                    *)
(***************************************************************************)
\* option strings have at most MaxOptLen characters
MaxOptLen == 2
\* an attribute text drawn as input holds at most MaxTokens expressions
MaxTokens == 2
\* a list of algorithms handed to generate / render has at most MaxAlgs names
MaxAlgs == 2

(***************************************************************************)
(* Characters.                                                             *)
(***************************************************************************)
TAB == <<9>>
SP == <<32>>
BANG == <<33>>
QUESTION == <<63>>
EQUALS == <<61>>
DASH == <<45>>
NEWLINE == <<10>>

\* the character classes of _INTEGRITY_PATTERN
WSP == {32, 9}
VCHAR == 33..126
B64CLASS == (97..122) \cup (65..90) \cup (48..57) \cup {43, 47}

\* the algorithm names, as text
SHA512 == <<115, 104, 97, 53, 49, 50>>
SHA384 == <<115, 104, 97, 51, 56, 52>>
SHA256 == <<115, 104, 97, 50, 53, 54>>
SHA1 == <<115, 104, 97, 49>>
MD5 == <<109, 100, 53>>
XSHA256 == <<120>> \o SHA256

DEFAULT_ALGORITHM == SHA384

RECOGNISED_ALGORITHMS == <<SHA512, SHA384, SHA256>>

Range(s) == {s[i] : i \in 1..Len(s)}

Min(S) == CHOOSE x \in S : \A y \in S : x <= y

\* tuple.index(x): the first position of x (0-based in the source, 1-based here)
Index(t, x) == Min({i \in 1..Len(t) : t[i] = x})

(***************************************************************************)
(* The collaborators: hashlib and base64.                                  *)
(***************************************************************************)
\* hashlib.new(algorithm).digest_size
digest_size(algorithm) ==
    CASE algorithm = SHA256 -> 32
      [] algorithm = SHA384 -> 48
      [] algorithm = SHA512 -> 64

RECURSIVE Mix(_, _)
Mix(data, acc) ==
    IF data = <<>> THEN acc
    ELSE Mix(Tail(data), (acc * 31 + Head(data) + 1) % 256)

\* hashlib.new(algorithm, resource).digest(): a stand-in for the hash, which
\* is a deterministic function of algorithm and resource of the algorithm's
\* digest size (no claim depends on the bytes being those of SHA-2)
hashlib_digest(algorithm, resource) ==
    LET Spread(m, n) == [i \in 1..n |-> (m * i + 17 * i * i) % 256]
    IN  Spread(Mix(resource, digest_size(algorithm)), digest_size(algorithm))

\* the standard base64 alphabet: the character of a 6-bit value
b64char(v) ==
    IF v < 26 THEN 65 + v
    ELSE IF v < 52 THEN 97 + (v - 26)
    ELSE IF v < 62 THEN 48 + (v - 52)
    ELSE IF v = 62 THEN 43
    ELSE 47

\* the 6-bit value of a character of the alphabet, 64 for any other character
\* (binascii's table_a2b_base64)
b64value(c) ==
    IF c \in 65..90 THEN c - 65
    ELSE IF c \in 97..122 THEN c - 97 + 26
    ELSE IF c \in 48..57 THEN c - 48 + 52
    ELSE IF c = 43 THEN 62
    ELSE IF c = 47 THEN 63
    ELSE 64

\* base64.standard_b64encode(digest).decode('ascii'): groups of three bytes
\* become four characters, the last group padded with '='
standard_b64encode(d) ==
    LET n == Len(d)
        byte(k) == IF k <= n THEN d[k] ELSE 0
        char(j) ==
            LET g == (j - 1) \div 4
                b0 == byte(3 * g + 1)
                b1 == byte(3 * g + 2)
                b2 == byte(3 * g + 3)
                q == (j - 1) % 4
            IN  CASE q = 0 -> b64char(b0 \div 4)
                  [] q = 1 -> b64char((b0 % 4) * 16 + b1 \div 16)
                  [] q = 2 -> IF 3 * g + 2 > n THEN 61
                              ELSE b64char((b1 % 16) * 4 + b2 \div 64)
                  [] q = 3 -> IF 3 * g + 3 > n THEN 61
                              ELSE b64char(b2 % 64)
    IN  [j \in 1..(4 * ((n + 2) \div 3)) |-> char(j)]

\* binascii.a2b_base64(s) in its default, non-strict mode.  Its loop reads the
\* characters in turn: a character that is neither of the alphabet nor '=' is
\* skipped; a character of the alphabet is shifted into the current quad and
\* resets the pad count; a '=' counts as a pad only when the quad holds two
\* or three characters, and the decoding stops (what follows is not read) as
\* soon as characters and pads complete the quad.  At the end of the input a
\* quad left incomplete is an error.  The loop is written here over t, the
\* text with the skipped characters removed: Scan finds the pads that
\* complete a quad, Read keeps the characters of the alphabet before the
\* first of them, Decoded packs their values into bytes.
a2b_base64(s) ==
    LET Kept(c) == b64value(c) < 64 \/ c = 61
        IsData(c) == b64value(c) < 64
        \* quad_pos when position i of t is read
        quad_pos(t, i) == Len(SelectSeq(SubSeq(t, 1, i - 1), IsData)) % 4
        byte(v, k) ==
            LET g == 4 * ((k - 1) \div 3)
                r == (k - 1) % 3
            IN  CASE r = 0 -> b64value(v[g + 1]) * 4 + b64value(v[g + 2]) \div 16
                  [] r = 1 -> (b64value(v[g + 2]) % 16) * 16 + b64value(v[g + 3]) \div 4
                  [] r = 2 -> (b64value(v[g + 3]) % 4) * 64 + b64value(v[g + 4])
        Decoded(v, stopped) ==
            IF ~stopped /\ Len(v) % 4 # 0
            THEN [ok |-> FALSE, bytes |-> <<>>]
            ELSE [ok |-> TRUE,
                  bytes |-> [k \in 1..((Len(v) * 6) \div 8) |-> byte(v, k)]]
        Read(t, done) ==
            Decoded(SelectSeq(IF done = {} THEN t ELSE SubSeq(t, 1, Min(done) - 1),
                              IsData),
                    done # {})
        Scan(t) ==
            Read(t, {i \in 1..Len(t) :
                        /\ t[i] = 61
                        /\ \/ quad_pos(t, i) = 3
                           \/ quad_pos(t, i) = 2 /\ i > 1 /\ t[i - 1] = 61})
    IN  Scan(SelectSeq(s, Kept))

\* base64.standard_b64decode(s): a str must be ASCII, then a2b_base64
standard_b64decode(s) ==
    IF \E i \in 1..Len(s) : s[i] > 127
    THEN [ok |-> FALSE, bytes |-> <<>>]
    ELSE a2b_base64(s)

(***************************************************************************)
(* _INTEGRITY_PATTERN.                                                     *)
(***************************************************************************)
\* where the longest run of characters of class that starts at p ends (the
\* position after it): a greedy X* of the pattern
SpanEnd(s, p, class) ==
    CHOOSE k \in p..(Len(s) + 1) :
        /\ k = Len(s) + 1 \/ s[k] \notin class
        /\ \A j \in p..(k - 1) : s[j] \in class

\* whether the literal lit stands at position p of s
StartsWith(s, p, lit) ==
    /\ p + Len(lit) - 1 <= Len(s)
    /\ SubSeq(s, p, p + Len(lit) - 1) = lit

NoMatch == [ok |-> FALSE, algorithm |-> <<>>, b64digest |-> <<>>,
            options |-> <<>>, end |-> 0]

\* _INTEGRITY_PATTERN.match(s, pos): the match that starts exactly at pos.
\* No part of the pattern can give characters back to a later part (the
\* classes that follow one another are disjoint), so the greedy match is the
\* only one.  The parts of the pattern are taken in turn, each handing on the
\* position it ended at: p1 after the leading WSP, p2 after the algorithm,
\* p3 after the '-', p4 after the characters of the digest, p5 after its
\* padding, p6 after the options.  The groups are those of the pattern:
\* options keeps its '?', and is empty when the group took no part.
INTEGRITY_PATTERN_match(s, pos) ==
    LET \* [ \t]* at the end
        Trailing(algorithm, p3, p5, p6) ==
            [ok |-> TRUE,
             algorithm |-> algorithm,
             b64digest |-> SubSeq(s, p3, p5 - 1),
             options |-> SubSeq(s, p5, p6 - 1),
             end |-> SpanEnd(s, p6, WSP)]
        \* (\?[\041-\176]*)?
        OptionsGroup(algorithm, p3, p5) ==
            Trailing(algorithm, p3, p5,
                     IF StartsWith(s, p5, QUESTION)
                     THEN SpanEnd(s, p5 + 1, VCHAR) ELSE p5)
        \* [=]{0,2}, the run of '=' ending at e
        Padding(algorithm, p3, p4, e) ==
            OptionsGroup(algorithm, p3, IF e > p4 + 2 THEN p4 + 2 ELSE e)
        \* [a-zA-Z0-9+/]+
        Digest(algorithm, p3, p4) ==
            IF p4 = p3 THEN NoMatch
            ELSE Padding(algorithm, p3, p4, SpanEnd(s, p4, {61}))
        \* -
        Dash(algorithm, p2) ==
            IF ~StartsWith(s, p2, DASH) THEN NoMatch
            ELSE Digest(algorithm, p2 + 1, SpanEnd(s, p2 + 1, B64CLASS))
        \* sha512|sha384|sha256, the first alternative that matches
        Algorithm(p1, alts) ==
            IF alts = {} THEN NoMatch
            ELSE Dash(RECOGNISED_ALGORITHMS[Min(alts)],
                      p1 + Len(RECOGNISED_ALGORITHMS[Min(alts)]))
        \* [ \t]* at the start
        Leading(p1) ==
            Algorithm(p1, {i \in 1..Len(RECOGNISED_ALGORITHMS) :
                                StartsWith(s, p1, RECOGNISED_ALGORITHMS[i])})
    IN  Leading(SpanEnd(s, pos, WSP))

\* _INTEGRITY_PATTERN.findall(s) from position pos on: the leftmost match at
\* or after pos, then the matches after its end; each match is the tuple of
\* its three groups.  (A match is never empty, so the scan always advances.)
RECURSIVE INTEGRITY_PATTERN_findall(_, _)
INTEGRITY_PATTERN_findall(s, pos) ==
    LET Groups(m) ==
            <<<<m.algorithm, m.b64digest, m.options>>>>
                \o INTEGRITY_PATTERN_findall(s, m.end)
        Leftmost(starts) ==
            IF starts = {} THEN <<>>
            ELSE Groups(INTEGRITY_PATTERN_match(s, Min(starts)))
    IN  Leftmost({p \in pos..Len(s) : INTEGRITY_PATTERN_match(s, p).ok})

(***************************************************************************)
(* class Hash.  A call returns [ok, err, val]: the value, or the error it  *)
(* raised.  The source raises ValueError (binascii.Error for base64) with  *)
(* distinct messages; err names them by kind.                              *)
(***************************************************************************)
NoHash == [algorithm |-> <<>>, digest |-> <<>>, options |-> <<>>]

Ok(v) == [ok |-> TRUE, err |-> "", val |-> v]

Raise(e) == [ok |-> FALSE, err |-> e, val |-> NoHash]

\* Hash._check_algorithm: TRUE when it returns, FALSE when it raises
check_algorithm(algorithm) == algorithm \in Range(RECOGNISED_ALGORITHMS)

check_digest_atmost(digest, algorithm) == Len(digest) <= digest_size(algorithm)

\* Hash._check_digest: TRUE when it returns, FALSE when it raises (digests
\* are byte sequences here, so the isinstance test passes)
check_digest(digest, algorithm) == Len(digest) = digest_size(algorithm)

\* Hash.__new__
Hash(algorithm, digest, options) ==
    IF ~check_algorithm(algorithm) THEN Raise("UnsupportedAlgorithm")
    ELSE IF ~check_digest(digest, algorithm) THEN Raise("DigestLengthMismatch")
    ELSE Ok([algorithm |-> algorithm, digest |-> digest, options |-> options])

\* Hash.fromresource
fromresource(resource, algorithm, options) ==
    IF ~check_algorithm(algorithm) THEN Raise("UnsupportedAlgorithm")
    ELSE Hash(algorithm, hashlib_digest(algorithm, resource), options)

\* Hash.fromhash
fromhash(algorithm, b64digest, options) ==
    LET Decoded(d) == IF ~d.ok THEN Raise("MalformedBase64")
                      ELSE Hash(algorithm, d.bytes, options)
    IN  Decoded(standard_b64decode(b64digest))

fromhashexpr_unstripped(s) ==
    LET Matched(m) ==
            IF ~m.ok THEN Raise("MalformedIntegrityExpression")
            ELSE fromhash(m.algorithm, m.b64digest, m.options)
    IN  Matched(INTEGRITY_PATTERN_match(s, 1))

\* Hash.fromhashexpr
fromhashexpr(s) ==
    LET Matched(m) ==
            IF ~m.ok THEN Raise("MalformedIntegrityExpression")
            ELSE fromhash(m.algorithm, m.b64digest,
                          SubSeq(m.options, 2, Len(m.options)))
    IN  Matched(INTEGRITY_PATTERN_match(s, 1))

\* Hash.b64digest
b64digest(h) == standard_b64encode(h.digest)

\* Hash.__str__
str(h) ==
    IF h.options = <<>>
    THEN h.algorithm \o DASH \o b64digest(h)
    ELSE h.algorithm \o DASH \o b64digest(h) \o QUESTION \o h.options

(***************************************************************************)
(* generate, render, parse.  A call returns [ok, err, val] with val a list *)
(* of values (generate, parse) or a text (render).                         *)
(***************************************************************************)
\* the outcome of building a list from calls that may raise: the first error
\* in list order, else the list of the values
Collect(calls) ==
    LET Outcome(bad) ==
            IF bad # {}
            THEN [ok |-> FALSE, err |-> calls[Min(bad)].err, val |-> <<>>]
            ELSE [ok |-> TRUE, err |-> "",
                  val |-> [i \in 1..Len(calls) |-> calls[i].val]]
    IN  Outcome({i \in 1..Len(calls) : ~calls[i].ok})

generate_without_repeats(data, algorithms) ==
    LET firsts == {i \in 1..Len(algorithms) :
                    \A j \in 1..(i - 1) : algorithms[j] # algorithms[i]}
        Kept(i) == Cardinality({j \in firsts : j <= i})
        uniq == [k \in 1..Cardinality(firsts) |->
                    algorithms[CHOOSE i \in firsts : Kept(i) = k]]
    IN  Collect([i \in 1..Len(uniq) |-> fromresource(data, uniq[i], <<>>)])

\* generate, consumed to its end: one fromresource per algorithm, in order
generate(data, algorithms) ==
    Collect([i \in 1..Len(algorithms) |-> fromresource(data, algorithms[i], <<>>)])

\* seperator.join(parts)
RECURSIVE Join(_, _)
Join(seperator, parts) ==
    IF parts = <<>> THEN <<>>
    ELSE IF Len(parts) = 1 THEN parts[1]
    ELSE parts[1] \o seperator \o Join(seperator, Tail(parts))

\* render
render(data, algorithms, seperator) ==
    LET Joined(g) ==
            IF ~g.ok THEN g
            ELSE [ok |-> TRUE, err |-> "",
                  val |-> Join(seperator,
                               [i \in 1..Len(g.val) |-> str(g.val[i])])]
    IN  Joined(generate(data, algorithms))

SortKey_weakest_first(t) ==
    Len(RECOGNISED_ALGORITHMS) + 1 - Index(RECOGNISED_ALGORITHMS, t[1])

\* the sort key of parse: RECOGNISED_ALGORITHMS.index(t[0])
SortKey(t) == Index(RECOGNISED_ALGORITHMS, t[1])

Sorted_not(matches) == matches

\* list.sort(key=...): stable, so an element comes after exactly the elements
\* of smaller key and the earlier elements of equal key
Sorted(matches) ==
    LET n == Len(matches)
        before(i) == {j \in 1..n :
                        \/ SortKey(matches[j]) < SortKey(matches[i])
                        \/ SortKey(matches[j]) = SortKey(matches[i]) /\ j < i}
    IN  [p \in 1..n |->
            matches[CHOOSE i \in 1..n : Cardinality(before(i)) = p - 1]]

parse_skipping(integrity) ==
    LET Good(m) == fromhash(m[1], m[2], m[3]).ok
        FromMatches(good) ==
            Collect([i \in 1..Len(good) |->
                        fromhash(good[i][1], good[i][2], good[i][3])])
    IN  FromMatches(SelectSeq(Sorted(INTEGRITY_PATTERN_findall(integrity, 1)), Good))

\* parse
parse(integrity) ==
    LET FromMatches(matches) ==
            Collect([i \in 1..Len(matches) |->
                        fromhash(matches[i][1], matches[i][2], matches[i][3])])
    IN  FromMatches(Sorted(INTEGRITY_PATTERN_findall(integrity, 1)))

(***************************************************************************)
(* The inputs a caller hands to the module.                                *)
(***************************************************************************)
\* algorithm names a caller may pass: the recognised ones and another
AlgorithmNames == Range(RECOGNISED_ALGORITHMS) \cup {MD5}

\* a digest of n bytes: all 0x00, all 0xFF, or bytes that vary
DigestOf(seed, n) ==
    [i \in 1..n |->
        CASE seed = 0 -> 0
          [] seed = 1 -> 255
          [] OTHER -> (seed * 89 + i * 53) % 256]

\* the digest lengths tried: those of the algorithms, their neighbours, the
\* length of a SHA-1 digest and the empty digest
DigestLengths == {0, 20, 31, 32, 48, 64, 65}

Digests == {DigestOf(seed, n) : seed \in {0, 1, 2}, n \in DigestLengths}

\* the characters of option strings: ' ' (not a VCHAR), '?', 'a' and '~' (the
\* last VCHAR)
OptionChars == {32, 63, 97, 126}

Options == UNION {[1..n -> OptionChars] : n \in 0..MaxOptLen}

Resources == {<<>>, <<0>>, <<72, 105>>}

AlgorithmLists == UNION {[1..n -> AlgorithmNames] : n \in 0..MaxAlgs}

Seperators == {SP, NEWLINE, <<>>}

\* the expression that encodes (algorithm, digest, options), for any name
Expr(algorithm, digest, options) ==
    algorithm \o DASH \o standard_b64encode(digest)
        \o (IF options = <<>> THEN <<>> ELSE QUESTION \o options)

\* pieces of attribute text: valid expressions, expressions of unrecognised
\* algorithms, expressions with a bad digest, and text outside the grammar
ValidTokens ==
    { Expr(SHA512, DigestOf(2, 64), <<>>),
      Expr(SHA384, DigestOf(0, 48), <<>>),
      Expr(SHA384, DigestOf(1, 48), <<97, 63>>),
      Expr(SHA256, DigestOf(2, 32), <<>>) }

UnrecognisedTokens ==
    { Expr(SHA1, DigestOf(2, 20), <<>>),
      Expr(XSHA256, DigestOf(1, 32), <<>>),
      Expr(XSHA256, DigestOf(0, 3), <<>>) }

BadDigestTokens ==
    { Expr(SHA256, DigestOf(0, 20), <<>>),
      SHA512 \o DASH \o <<65, 65, 65>> }

Tokens == ValidTokens \cup UnrecognisedTokens \cup BadDigestTokens \cup {BANG \o BANG}

TokenLists == UNION {[1..n -> Tokens] : n \in 0..MaxTokens}

\* the attribute text of a list of tokens: the tokens joined by a space, bare
\* or wrapped in space / tab
Text(tokens, wrapped) ==
    IF wrapped THEN SP \o TAB \o Join(SP, tokens) \o TAB \o SP
    ELSE Join(SP, tokens)

\* base64 texts handed to fromhash: the encoding of a digest, bare, with a
\* character outside the alphabet put in front or inside, cut short, or with
\* more padding
Dirty(e) ==
    { e,
      BANG \o e,
      SubSeq(e, 1, 2) \o SP \o SubSeq(e, 3, Len(e)),
      SubSeq(e, 1, 2) \o <<45, 95>> \o SubSeq(e, 3, Len(e)),
      SubSeq(e, 1, Len(e) - 1),
      e \o EQUALS }

Base64Texts == UNION {Dirty(standard_b64encode(d)) : d \in Digests \ {<<>>}}

NoArgs ==
    [algorithm |-> <<>>, digest |-> <<>>, options |-> <<>>, resource |-> <<>>,
     algorithms |-> <<>>, seperator |-> <<>>, defaults |-> FALSE,
     tokens |-> <<>>]

(***************************************************************************)
(* The state: what the caller passed (kind, args and, for the calls that   *)
(* take a text, s), what the calls returned, and the calls made so far.    *)
(***************************************************************************)
VARIABLES
    kind,     \* which arguments were drawn: "value", "resource", "b64", "collection", "text"
    args,     \* the arguments of the constructors and of generate / render,
              \* and the tokens an input text was put together from
    s,        \* a text: drawn as input, or returned by str / render
    made,     \* the values returned by Hash, fromresource, fromhash, generate
    parsed,   \* the values returned by fromhashexpr (one) or parse (a list)
    error,    \* the error the last call raised, "" when it returned
    pc        \* the calls made so far, in order

vars == <<kind, args, s, made, parsed, error, pc>>

Init ==
    /\ made = <<>>
    /\ parsed = <<>>
    /\ error = ""
    /\ pc = <<>>
    /\ \/ /\ kind = "value"
          /\ s = <<>>
          /\ \E a \in AlgorithmNames, d \in Digests, o \in Options :
                args = [NoArgs EXCEPT !.algorithm = a, !.digest = d, !.options = o]
       \/ /\ kind = "resource"
          /\ s = <<>>
          /\ \/ \E r \in Resources, a \in AlgorithmNames, o \in Options :
                  args = [NoArgs EXCEPT !.resource = r, !.algorithm = a, !.options = o]
             \/ \E r \in Resources :
                  args = [NoArgs EXCEPT !.resource = r, !.algorithm = DEFAULT_ALGORITHM,
                                        !.defaults = TRUE]
       \/ /\ kind = "b64"
          /\ s \in Base64Texts
          /\ \E a \in AlgorithmNames, o \in {<<>>, <<97>>} :
                args = [NoArgs EXCEPT !.algorithm = a, !.options = o]
       \/ /\ kind = "collection"
          /\ s = <<>>
          /\ \/ \E r \in Resources, l \in AlgorithmLists, sep \in Seperators :
                  args = [NoArgs EXCEPT !.resource = r, !.algorithms = l, !.seperator = sep]
             \/ \E r \in Resources :
                  args = [NoArgs EXCEPT !.resource = r,
                                        !.algorithms = <<DEFAULT_ALGORITHM>>,
                                        !.seperator = SP, !.defaults = TRUE]
       \/ /\ kind = "text"
          /\ \E l \in TokenLists, w \in BOOLEAN :
                /\ s = Text(l, w)
                /\ args = [NoArgs EXCEPT !.tokens = l]

Last(q) == q[Len(q)]

\* Hash(algorithm, digest, options)
CallHash ==
    /\ kind = "value" /\ pc = <<>>
    /\ LET Returned(r) == /\ made' = (IF r.ok THEN <<r.val>> ELSE <<>>)
                          /\ error' = r.err
       IN  Returned(Hash(args.algorithm, args.digest, args.options))
    /\ pc' = Append(pc, "Hash")
    /\ UNCHANGED <<kind, args, s, parsed>>

\* Hash.fromresource(resource, algorithm, options); with the defaults,
\* Hash.fromresource(resource)
CallFromresource ==
    /\ kind = "resource" /\ pc = <<>>
    /\ LET Returned(r) == /\ made' = (IF r.ok THEN <<r.val>> ELSE <<>>)
                          /\ error' = r.err
       IN  Returned(fromresource(args.resource, args.algorithm, args.options))
    /\ pc' = Append(pc, "fromresource")
    /\ UNCHANGED <<kind, args, s, parsed>>

\* Hash.fromhash(algorithm, s, options)
CallFromhash ==
    /\ kind = "b64" /\ pc = <<>>
    /\ LET Returned(r) == /\ made' = (IF r.ok THEN <<r.val>> ELSE <<>>)
                          /\ error' = r.err
       IN  Returned(fromhash(args.algorithm, s, args.options))
    /\ pc' = Append(pc, "fromhash")
    /\ UNCHANGED <<kind, args, s, parsed>>

\* str(h) of the value a constructor returned
CallStr ==
    /\ pc \in {<<"Hash">>, <<"fromresource">>, <<"fromhash">>}
    /\ error = ""
    /\ s' = str(made[1])
    /\ pc' = Append(pc, "str")
    /\ UNCHANGED <<kind, args, made, parsed, error>>

\* Hash.fromhashexpr(s), of a text drawn as input or returned by str
CallFromhashexpr ==
    /\ \/ kind = "text" /\ pc = <<>>
       \/ pc # <<>> /\ Last(pc) = "str"
    /\ LET Returned(r) == /\ parsed' = (IF r.ok THEN <<r.val>> ELSE <<>>)
                          /\ error' = r.err
       IN  Returned(fromhashexpr(s))
    /\ pc' = Append(pc, "fromhashexpr")
    /\ UNCHANGED <<kind, args, s, made>>

\* list(generate(data, algorithms)); with the defaults, list(generate(data))
CallGenerate ==
    /\ kind = "collection" /\ pc = <<>>
    /\ LET Returned(r) == /\ made' = r.val
                          /\ error' = r.err
       IN  Returned(generate(args.resource, args.algorithms))
    /\ pc' = Append(pc, "generate")
    /\ UNCHANGED <<kind, args, s, parsed>>

\* render(data, algorithms, seperator); with the defaults, render(data)
CallRender ==
    /\ kind = "collection" /\ pc \in {<<>>, <<"generate">>}
    /\ error = ""
    /\ LET Returned(r) == /\ s' = (IF r.ok THEN r.val ELSE <<>>)
                          /\ error' = r.err
       IN  Returned(render(args.resource, args.algorithms, args.seperator))
    /\ pc' = Append(pc, "render")
    /\ UNCHANGED <<kind, args, made, parsed>>

\* parse(s), of a text drawn as input or returned by str or render
CallParse ==
    /\ \/ kind = "text" /\ pc = <<>>
       \/ pc # <<>> /\ Last(pc) \in {"str", "render"} /\ error = ""
    /\ LET Returned(r) == /\ parsed' = r.val
                          /\ error' = r.err
       IN  Returned(parse(s))
    /\ pc' = Append(pc, "parse")
    /\ UNCHANGED <<kind, args, s, made>>

Next ==
    \/ CallHash
    \/ CallFromresource
    \/ CallFromhash
    \/ CallStr
    \/ CallFromhashexpr
    \/ CallGenerate
    \/ CallRender
    \/ CallParse

Spec == Init /\ [][Next]_vars

(***************************************************************************)
(* The properties.                                                         *)
(***************************************************************************)
AllVCHAR(o) == \A i \in 1..Len(o) : o[i] >= 33 /\ o[i] <= 126

\* the digest length in bytes that goes with a recognised algorithm
ProperLength(algorithm, n) ==
    \/ algorithm = SHA256 /\ n = 32
    \/ algorithm = SHA384 /\ n = 48
    \/ algorithm = SHA512 /\ n = 64

\* strength rank: sha512 > sha384 > sha256
Strength(algorithm) ==
    CASE algorithm = SHA512 -> 3
      [] algorithm = SHA384 -> 2
      [] algorithm = SHA256 -> 1

\* C1: every value a call returned (a constructor's, generate's, or an
\* element of what fromhashexpr / parse returned) has a recognised algorithm
\* and a digest of exactly 32, 48 or 64 bytes for sha256, sha384, sha512; and
\* a call of the primary constructor with another algorithm name or another
\* digest length raises and returns no value, and so does a call of
\* fromresource or fromhash with another algorithm name.
C1_ValuesAreValid ==
    /\ \A i \in 1..Len(made) : ProperLength(made[i].algorithm, Len(made[i].digest))
    /\ \A i \in 1..Len(parsed) : ProperLength(parsed[i].algorithm, Len(parsed[i].digest))
    /\ (pc = <<"Hash">> /\ ~ProperLength(args.algorithm, Len(args.digest)))
            => (error \in {"UnsupportedAlgorithm", "DigestLengthMismatch"} /\ made = <<>>)
    /\ (pc = <<"fromresource">> /\ args.algorithm \notin {SHA256, SHA384, SHA512})
            => (error = "UnsupportedAlgorithm" /\ made = <<>>)
    /\ (pc = <<"fromhash">> /\ args.algorithm \notin {SHA256, SHA384, SHA512})
            => (error \in {"UnsupportedAlgorithm", "MalformedBase64"} /\ made = <<>>)

\* the constructor has rejected a truncated sha256 digest (31 bytes)
C1_Witness ==
    /\ pc = <<"Hash">>
    /\ args.algorithm = SHA256
    /\ Len(args.digest) = 31
    /\ error = "DigestLengthMismatch"
    /\ made = <<>>

\* C2: round trip.  For a value with options made of VCHARs (possibly empty,
\* possibly holding '?'), fromhashexpr(str(value)) returns a value equal to
\* it in algorithm, digest and options.
C2_RoundTrip ==
    (/\ Len(pc) = 3 /\ pc[2] = "str" /\ pc[3] = "fromhashexpr"
     /\ AllVCHAR(made[1].options))
        => (/\ error = ""
            /\ Len(parsed) = 1
            /\ parsed[1].algorithm = made[1].algorithm
            /\ parsed[1].digest = made[1].digest
            /\ parsed[1].options = made[1].options)

\* a sha512 value whose options are "?a" has gone through str and fromhashexpr
C2_Witness ==
    /\ pc = <<"Hash", "str", "fromhashexpr">>
    /\ made[1].algorithm = SHA512
    /\ made[1].options = <<63, 97>>
    /\ parsed = made

\* C3: fromhashexpr(text) returns a value only when the text, less the space
\* and tab around it, is one single expression; a text with more after its
\* first expression, or with no expression at its start, raises
\* MalformedIntegrityExpression and returns no value.  (Texts whose first
\* expression has a bad digest are left aside: they raise for the digest.)
C3_WholeInputOnly ==
    (/\ kind = "text" /\ pc = <<"fromhashexpr">>
     /\ ~(args.tokens # <<>> /\ args.tokens[1] \in BadDigestTokens))
        => \/ Len(args.tokens) = 1 /\ args.tokens[1] \in ValidTokens
           \/ error = "MalformedIntegrityExpression" /\ parsed = <<>>

\* the elements of a list of match tuples whose algorithm is a, in order
MatchesOf(q, a) ==
    LET Is(m) == m[1] = a
    IN  SelectSeq(q, Is)

\* the elements of a list of values whose algorithm is a, in order
ValuesOf(q, a) ==
    LET Is(h) == h.algorithm = a
    IN  SelectSeq(q, Is)

StrongestFirst(q) ==
    \A i, j \in 1..Len(q) :
        i < j => Strength(q[i].algorithm) >= Strength(q[j].algorithm)

\* C4: when parse returns, its list is in descending strength (sha512, then
\* sha384, then sha256), the values of one algorithm are in the order of
\* their occurrences in the text, and the list holds the matches found, each
\* once: none added, dropped or merged.
C4_StrongestFirstStable ==
    (kind = "text" /\ pc = <<"parse">> /\ error = "")
        => LET found == INTEGRITY_PATTERN_findall(s, 1)
               got == [i \in 1..Len(parsed) |->
                        <<parsed[i].algorithm, b64digest(parsed[i]), parsed[i].options>>]
           IN  /\ StrongestFirst(parsed)
               /\ Len(parsed) = Len(found)
               /\ \A a \in {SHA512, SHA384, SHA256} :
                    MatchesOf(got, a) = MatchesOf(found, a)

\* parse has moved a sha512 expression in front of the expression of a
\* weaker algorithm that came before it in the text
C4_Witness ==
    /\ kind = "text" /\ pc = <<"parse">> /\ error = ""
    /\ Len(args.tokens) = 2
    /\ args.tokens[1] \in ValidTokens
    /\ StartsWith(args.tokens[2], 1, SHA512)
    /\ ~StartsWith(args.tokens[1], 1, SHA512)
    /\ Len(parsed) = 2
    /\ parsed[1].algorithm = SHA512

\* C5: parse never fails because of an expression whose algorithm name is
\* not recognised: in a text of valid expressions, expressions of
\* unrecognised algorithms and text outside the grammar, parse returns, and
\* returns as many values as there are valid expressions (none when there is
\* none).
C5_UnrecognisedSkipped ==
    (/\ kind = "text" /\ pc = <<"parse">>
     /\ \A i \in 1..Len(args.tokens) : args.tokens[i] \notin BadDigestTokens)
        => /\ error = ""
           /\ Len(parsed) =
                Cardinality({i \in 1..Len(args.tokens) : args.tokens[i] \in ValidTokens})

\* C6: for a payload and a list of recognised algorithms, parse of
\* render(data, algorithms) with the default separator returns, and returns
\* the values of generate(data, algorithms) arranged in descending strength.
C6_ParseOfRender ==
    (/\ kind = "collection" /\ pc = <<"generate", "render", "parse">>
     /\ args.seperator = SP)
        => /\ error = ""
           /\ Len(parsed) = Len(made)
           /\ StrongestFirst(parsed)
           /\ \A a \in {SHA512, SHA384, SHA256} : ValuesOf(parsed, a) = ValuesOf(made, a)

\* generate gave sha256 then sha512, and parse of the rendered text gives
\* sha512 then sha256
C6_Witness ==
    /\ pc = <<"generate", "render", "parse">>
    /\ args.algorithms = <<SHA256, SHA512>>
    /\ args.seperator = SP
    /\ Len(parsed) = 2
    /\ parsed[1] = made[2]
    /\ parsed[2] = made[1]

\* C7: render(data, algorithms, seperator) is the encodings
\* "<algorithm>-<base64 of the hash of data>" of the requested algorithms,
\* one per name, repeats kept, in the order given, joined by seperator; with
\* the defaults it is the one sha384 expression, with no separator and no '?'.
C7_RenderJoinsInOrder ==
    (kind = "collection" /\ pc # <<>> /\ Last(pc) = "render" /\ error = "")
        => /\ s = Join(args.seperator,
                       [i \in 1..Len(args.algorithms) |->
                            Expr(args.algorithms[i],
                                 hashlib_digest(args.algorithms[i], args.resource),
                                 <<>>)])
           /\ args.defaults =>
                /\ s = SHA384 \o DASH
                         \o standard_b64encode(hashlib_digest(SHA384, args.resource))
                /\ 63 \notin Range(s)
                /\ 32 \notin Range(s)

\* render was asked for sha256 twice, separated by a line break
C7_Witness ==
    /\ kind = "collection" /\ pc = <<"render">> /\ error = ""
    /\ args.algorithms = <<SHA256, SHA256>>
    /\ args.seperator = NEWLINE
    /\ Len(s) = 103

\* whether the digest of a match does not decode, or decodes to a length
\* that is not the one of the match's algorithm
BadMatch(m) ==
    LET d == standard_b64decode(m[2])
    IN  ~d.ok \/ ~ProperLength(m[1], Len(d.bytes))

\* C8: when a match of a recognised algorithm has a digest that does not
\* decode, or decodes to the wrong length, parse raises MalformedBase64 or
\* DigestLengthMismatch: it returns no list, not even of the valid matches.
C8_BadDigestFailsParse ==
    (/\ kind = "text" /\ pc = <<"parse">>
     /\ LET found == INTEGRITY_PATTERN_findall(s, 1)
        IN  \E i \in 1..Len(found) : BadMatch(found[i]))
        => /\ error \in {"MalformedBase64", "DigestLengthMismatch"}
           /\ parsed = <<>>

\* parse has raised on a text whose first expression is valid and whose
\* second has a digest that does not decode
C8_Witness ==
    /\ kind = "text" /\ pc = <<"parse">>
    /\ Len(args.tokens) = 2
    /\ args.tokens[1] \in ValidTokens
    /\ args.tokens[2] \in BadDigestTokens
    /\ error = "MalformedBase64"
    /\ parsed = <<>>

\* C9: fromhash decodes strictly: a text with a character outside the base64
\* alphabet raises MalformedBase64 and yields no value, even when the text
\* without that character encodes a digest of the algorithm's length.
C9_StrictDecode ==
    LET InAlphabet(c) == c \in B64CLASS \/ c = 61
    IN  (/\ kind = "b64" /\ pc = <<"fromhash">>
         /\ \E i \in 1..Len(s) : ~InAlphabet(s[i])
         /\ \E d \in Digests :
                /\ ProperLength(args.algorithm, Len(d))
                /\ SelectSeq(s, InAlphabet) = standard_b64encode(d))
            => error = "MalformedBase64" /\ made = <<>>

\* C10: parse agrees with fromhashexpr on one expression: for a value v with
\* options made of VCHARs, parse(str(v)) is the list of v alone.
C10_ParseOfStr ==
    (/\ Len(pc) = 3 /\ pc[2] = "str" /\ pc[3] = "parse"
     /\ AllVCHAR(made[1].options))
        => error = "" /\ parsed = made

=============================================================================
